---- MODULE Spec2Model ----
(***************************************************************************)
(* Huffman archiver (src/main.py): frequency table, heap-driven tree       *)
(* construction, code table, compress_file and decompress_file.            *)
(*                                                                         *)
(* Text is a sequence of one-character strings.  A dict is a sequence of   *)
(* key/value records in insertion order (Python dicts iterate in insertion *)
(* order).  Tree nodes live in an arena `nodes`; a node is named by its    *)
(* index in the arena and 0 stands for None.                               *)
(***************************************************************************)
EXTENDS Integers, Sequences, FiniteSets, TLC

\* ---------------------------------------------------------------- bounds
MaxLen == 4       \* longest input text drawn for compress_file
MaxBuildLen == 5  \* longest text drawn for the builders
MaxRuns == 2    \* how many times the builders are applied to one text

TextAlphabet == {"a", "b", "c"}
BuildAlphabet == {"a", "b", "c", "d"}

None == 0
NoChar == "None"

\* ------------------------------------------------------------ state
VARIABLES
    pc,                \* "idle", or where the builders are: "start" | "build" | "return" | "table"
    data,              \* contents of the input file
    frequency_table,   \* dict char -> count
    nodes,             \* arena of HuffmanNode objects
    heap,              \* the heapq list (node handles)
    alloc_dir,         \* order of the object identities the allocator hands out
    merges,            \* iterations of the while loop executed so far
    tree,              \* what build_huffman_tree returned (None before)
    encoding_table,    \* dict char -> code
    prev_run,          \* the previous application: its encoding_table and its alloc_dir
    runs,              \* applications of the builders so far
    compressed_file,   \* <path>.compressed
    encoding_file,     \* <path>.encoding
    decompressed_file, \* <path>.decompressed
    compress_result,   \* what compress_file returned last
    decompress_result, \* what decompress_file returned last
    read_compressed,   \* the payload decompress_file read last
    read_encoding,     \* the table text decompress_file read last
    current_code       \* decompress_file's accumulator when its loop ended

vars == <<pc, data, frequency_table, nodes, heap, alloc_dir, merges, tree,
          encoding_table, prev_run, runs, compressed_file, encoding_file,
          decompressed_file, compress_result, decompress_result,
          read_compressed, read_encoding, current_code>>

buildVars == <<frequency_table, nodes, heap, alloc_dir, merges, tree>>
fileVars == <<compressed_file, encoding_file, decompressed_file>>
decompressVars == <<decompress_result, read_compressed, read_encoding, current_code>>

\* ------------------------------------------------------------ dict helpers
RECURSIVE DictIndex(_, _, _)
DictIndex(d, k, i) ==
    IF i > Len(d) THEN 0
    ELSE IF d[i].key = k THEN i
    ELSE DictIndex(d, k, i + 1)

DictHas(d, k) == DictIndex(d, k, 1) # 0

DictGet(d, k) == d[DictIndex(d, k, 1)].val

\* d[k] = v: an existing key keeps its place, a new key goes last
DictSet(d, k, v) ==
    LET i == DictIndex(d, k, 1)
    IN IF i = 0 THEN Append(d, [key |-> k, val |-> v])
       ELSE [d EXCEPT ![i] = [key |-> k, val |-> v]]

\* ------------------------------------------------------------ HuffmanNode
HuffmanNode(character, frequency, ident) ==
    [character |-> character, frequency |-> frequency,
     left |-> None, right |-> None, id |-> ident]

\* a comparison that falls back on object identity when the weights tie
HuffmanNode_lt_ById(self, other) ==
    \/ self.frequency < other.frequency
    \/ self.frequency = other.frequency /\ self.id < other.id

\* a comparison turned around: the heap becomes a max-heap
HuffmanNode_lt_Reversed(self, other) == self.frequency > other.frequency

HuffmanNode_lt(self, other) == self.frequency < other.frequency

\* the identity (address) of the n-th object allocated in this run
NewId(dir, n) == IF dir = "up" THEN n ELSE 0 - n

\* ------------------------------------------------------------ heapq
\* positions are Python's (0-based); h[p + 1] is heap[p]
Lt(ns, a, b) == HuffmanNode_lt(ns[a], ns[b])

RECURSIVE SiftDown(_, _, _, _, _)
SiftDown(ns, h, startpos, pos, newitem) ==
    IF pos > startpos
    THEN LET parentpos == (pos - 1) \div 2
             parent == h[parentpos + 1]
         IN IF Lt(ns, newitem, parent)
            THEN SiftDown(ns, [h EXCEPT ![pos + 1] = parent], startpos, parentpos, newitem)
            ELSE [h EXCEPT ![pos + 1] = newitem]
    ELSE [h EXCEPT ![pos + 1] = newitem]

RECURSIVE SiftUpLoop(_, _, _, _, _)
SiftUpLoop(ns, h, startpos, pos, newitem) ==
    LET endpos == Len(h)
        childpos == 2 * pos + 1
        rightpos == childpos + 1
        c == IF rightpos < endpos /\ ~Lt(ns, h[childpos + 1], h[rightpos + 1])
             THEN rightpos ELSE childpos
    IN IF childpos < endpos
       THEN SiftUpLoop(ns, [h EXCEPT ![pos + 1] = h[c + 1]], startpos, c, newitem)
       ELSE SiftDown(ns, [h EXCEPT ![pos + 1] = newitem], startpos, pos, newitem)

SiftUp(ns, h, pos) == SiftUpLoop(ns, h, pos, pos, h[pos + 1])

heappush(ns, h, item) ==
    LET h1 == Append(h, item)
    IN SiftDown(ns, h1, 0, Len(h1) - 1, item)

\* heappop of a non-empty heap: the item returned and the heap left
heappop(ns, h) ==
    LET lastelt == h[Len(h)]
        rest == SubSeq(h, 1, Len(h) - 1)
    IN IF rest # <<>>
       THEN [item |-> h[1], heap |-> SiftUp(ns, [rest EXCEPT ![1] = lastelt], 0)]
       ELSE [item |-> lastelt, heap |-> rest]

\* ------------------------------------------------------------ build_frequency_table
RECURSIVE build_frequency_table_from(_, _, _)
build_frequency_table_from(text, i, table) ==
    IF i > Len(text) THEN table
    ELSE build_frequency_table_from(text, i + 1,
            DictSet(table, text[i],
                    (IF DictHas(table, text[i]) THEN DictGet(table, text[i]) ELSE 0) + 1))

build_frequency_table(text) == build_frequency_table_from(text, 1, <<>>)

\* ------------------------------------------------------------ build_huffman_tree
\* a merge that forgets the right child's weight
MergedNode_LeftWeightOnly(ns, l, r, ident) ==
    [character |-> NoChar, frequency |-> ns[l].frequency,
     left |-> l, right |-> r, id |-> ident]

MergedNode(ns, l, r, ident) ==
    [character |-> NoChar, frequency |-> ns[l].frequency + ns[r].frequency,
     left |-> l, right |-> r, id |-> ident]

\* one item of the for loop: a leaf is created and pushed
PushOne(st, item, dir) ==
    LET h == Len(st.nodes) + 1
        ns == Append(st.nodes, HuffmanNode(item.key, item.val, NewId(dir, h)))
    IN [nodes |-> ns, heap |-> heappush(ns, st.heap, h)]

\* one iteration of the while loop
MergeOnce(st, dir) ==
    LET p1 == heappop(st.nodes, st.heap)
        p2 == heappop(st.nodes, p1.heap)
        h == Len(st.nodes) + 1
        ns == Append(st.nodes, MergedNode(st.nodes, p1.item, p2.item, NewId(dir, h)))
    IN [nodes |-> ns, heap |-> heappush(ns, p2.heap, h)]

RECURSIVE PushAll(_, _, _, _)
PushAll(st, table, i, dir) ==
    IF i > Len(table) THEN st
    ELSE PushAll(PushOne(st, table[i], dir), table, i + 1, dir)

RECURSIVE MergeAll(_, _)
MergeAll(st, dir) ==
    IF Len(st.heap) > 1 THEN MergeAll(MergeOnce(st, dir), dir) ELSE st

\* the whole function: the arena it leaves and the root it returns
build_huffman_tree(table, dir) ==
    LET pushed == PushAll([nodes |-> <<>>, heap |-> <<>>], table, 1, dir)
    IN IF pushed.heap = <<>>
       THEN [nodes |-> pushed.nodes, heap |-> pushed.heap, root |-> None]
       ELSE LET st == MergeAll(pushed, dir)
            IN [nodes |-> st.nodes, heap |-> st.heap, root |-> st.heap[1]]

\* ------------------------------------------------------------ build_encoding_table
\* a traversal that labels both edges "0"
RECURSIVE traverse_SameBit(_, _, _, _)
traverse_SameBit(ns, node, code, table) ==
    IF ns[node].character # NoChar
    THEN DictSet(table, ns[node].character, code)
    ELSE traverse_SameBit(ns, ns[node].right, Append(code, "0"),
            traverse_SameBit(ns, ns[node].left, Append(code, "0"), table))

RECURSIVE traverse(_, _, _, _)
traverse(ns, node, code, table) ==
    IF ns[node].character # NoChar
    THEN DictSet(table, ns[node].character, code)
    ELSE traverse(ns, ns[node].right, Append(code, "1"),
            traverse(ns, ns[node].left, Append(code, "0"), table))

build_encoding_table(ns, huffman_tree) == traverse(ns, huffman_tree, <<>>, <<>>)

\* ------------------------------------------------------------ text helpers
Whitespace == {" ", "\t", "\n", "\r"}

RECURSIVE Concat(_, _)
Concat(seqs, i) == IF i > Len(seqs) THEN <<>> ELSE seqs[i] \o Concat(seqs, i + 1)

\* iterating a text file: the lines, each with its "\n" when it has one
RECURSIVE SplitLines(_, _, _, _)
SplitLines(text, i, cur, out) ==
    IF i > Len(text) THEN (IF cur = <<>> THEN out ELSE Append(out, cur))
    ELSE IF text[i] = "\n" THEN SplitLines(text, i + 1, <<>>, Append(out, Append(cur, "\n")))
    ELSE SplitLines(text, i + 1, Append(cur, text[i]), out)

\* str.strip()
RECURSIVE Strip(_)
Strip(s) ==
    IF s = <<>> THEN s
    ELSE IF s[1] \in Whitespace THEN Strip(Tail(s))
    ELSE IF s[Len(s)] \in Whitespace THEN Strip(SubSeq(s, 1, Len(s) - 1))
    ELSE s

\* str.split(sep) for a one-character sep: always at least one part
RECURSIVE Split(_, _, _, _, _)
Split(s, sep, i, cur, out) ==
    IF i > Len(s) THEN Append(out, cur)
    ELSE IF s[i] = sep THEN Split(s, sep, i + 1, <<>>, Append(out, cur))
    ELSE Split(s, sep, i + 1, Append(cur, s[i]), out)

Parts(line) == Split(Strip(line), ":", 1, <<>>, <<>>)

\* ------------------------------------------------------------ compress_file
SuccessMessage == "Operation completed successfully!"
BadPathsMessage == "Invalid file paths, send the correct files."
Failure == ""
NotCalled == "not called"

NoFile == [exists |-> FALSE, content |-> <<>>]
File(text) == [exists |-> TRUE, content |-> text]

\* the loop `compressed_data += encoding_table[char]`
RECURSIVE Encode(_, _, _)
Encode(text, table, i) ==
    IF i > Len(text) THEN <<>>
    ELSE DictGet(table, text[i]) \o Encode(text, table, i + 1)

\* the loop writing f"{char}:{code}\n" for every item of the table
RECURSIVE EncodingFileText(_, _)
EncodingFileText(table, i) ==
    IF i > Len(table) THEN <<>>
    ELSE <<table[i].key, ":">> \o table[i].val \o <<"\n">> \o EncodingFileText(table, i + 1)

NothingWritten(result) ==
    [result |-> result, written |-> FALSE, compressed_data |-> <<>>, table_text |-> <<>>]

Compressed(text, dir) ==
    LET frequency_table_ == build_frequency_table(text)
        huffman_tree == build_huffman_tree(frequency_table_, dir)
    IN IF huffman_tree.root = None THEN NothingWritten(Failure)
       ELSE LET encoding_table_ == build_encoding_table(huffman_tree.nodes, huffman_tree.root)
            IN [result |-> SuccessMessage, written |-> TRUE,
                compressed_data |-> Encode(text, encoding_table_, 1),
                table_text |-> EncodingFileText(encoding_table_, 1)]

\* a compress_file that opens its two output files before it looks at the data
compress_file_OpensOutputsFirst(text, dir) ==
    IF text = <<>>
    THEN [NothingWritten(Failure) EXCEPT !.written = TRUE]
    ELSE Compressed(text, dir)

\* what one call does, given the text of the input file
compress_file(text, dir) ==
    IF text = <<>> THEN NothingWritten(Failure) ELSE Compressed(text, dir)

\* the handler: its locals are gone when it returns, the files stay
CompressFile ==
    /\ pc = "idle"
    /\ \E dir \in {"up", "down"} :
         LET r == compress_file(data, dir)
         IN /\ compress_result' = r.result
            /\ IF r.written
               THEN /\ compressed_file' = File(r.compressed_data)
                    /\ encoding_file' = File(r.table_text)
               ELSE UNCHANGED <<compressed_file, encoding_file>>
    /\ UNCHANGED <<pc, data, encoding_table, prev_run, runs, decompressed_file>>
    /\ UNCHANGED buildVars
    /\ UNCHANGED decompressVars

\* ------------------------------------------------------------ decompress_file
\* the loop over the lines of the table file: the dict code -> char
RECURSIVE ReadTable(_, _, _)
ReadTable(lines, i, table) ==
    IF i > Len(lines) THEN table
    ELSE LET parts == Parts(lines[i])
         IN ReadTable(lines, i + 1,
                IF Len(parts) = 2 THEN DictSet(table, parts[2], parts[1]) ELSE table)

\* the decoding loop: the text decoded and the accumulator left
RECURSIVE Decode(_, _, _, _, _)
Decode(bits, table, i, acc, out) ==
    IF i > Len(bits) THEN [decoded_data |-> out, current_code |-> acc]
    ELSE LET cur == Append(acc, bits[i])
         IN IF DictHas(table, cur)
            THEN Decode(bits, table, i + 1, <<>>, out \o DictGet(table, cur))
            ELSE Decode(bits, table, i + 1, cur, out)

\* what one call does, given the text of its two input files
decompress_file(compressed_data, table_text) ==
    LET table == ReadTable(SplitLines(table_text, 1, <<>>, <<>>), 1, <<>>)
    IN IF compressed_data = <<>>
       THEN [result |-> Failure, written |-> FALSE, decoded_data |-> <<>>, current_code |-> <<>>]
       ELSE LET d == Decode(compressed_data, table, 1, <<>>, <<>>)
            IN [result |-> SuccessMessage, written |-> TRUE,
                decoded_data |-> d.decoded_data, current_code |-> d.current_code]

\* The files handed to decompress_file: those compress_file wrote, or one of them
\* after a truncation or a hand edit.
Truncations(bits) == {SubSeq(bits, 1, n) : n \in 0..(Len(bits) - 1)}

RemoveAt(s, p) == SubSeq(s, 1, p - 1) \o SubSeq(s, p + 1, Len(s))
InsertAt(s, p, c) == SubSeq(s, 1, p - 1) \o <<c>> \o SubSeq(s, p, Len(s))
Colons(s) == {p \in 1..Len(s) : s[p] = ":"}

\* line i of the table text given the code of line j
WithCodeOf(text, i, j) ==
    LET lines == SplitLines(text, 1, <<>>, <<>>)
        pi == Parts(lines[i])
        pj == Parts(lines[j])
    IN Concat([k \in 1..Len(lines) |->
                  IF k = i THEN pi[1] \o <<":">> \o pj[2] \o <<"\n">> ELSE lines[k]], 1)

TableEdits(text) ==
    LET n == Len(SplitLines(text, 1, <<>>, <<>>))
    IN {RemoveAt(text, p) : p \in Colons(text)}
       \cup {InsertAt(text, p, ":") : p \in Colons(text)}
       \cup {WithCodeOf(text, ij[1], ij[2]) :
                  ij \in {x \in (1..n) \X (1..n) : x[1] # x[2]}}

InputFiles(bits, text) ==
    {<<bits, text>>}
    \cup {<<b, text>> : b \in Truncations(bits)}
    \cup {<<bits, t>> : t \in TableEdits(text)}

DecompressMissing ==
    /\ pc = "idle"
    /\ ~compressed_file.exists \/ ~encoding_file.exists
    /\ decompress_result' = BadPathsMessage
    /\ UNCHANGED <<read_compressed, read_encoding, current_code>>
    /\ UNCHANGED <<pc, data, encoding_table, prev_run, runs, compress_result>>
    /\ UNCHANGED buildVars
    /\ UNCHANGED fileVars

DecompressFile ==
    /\ pc = "idle"
    /\ compressed_file.exists /\ encoding_file.exists
    /\ \E inp \in InputFiles(compressed_file.content, encoding_file.content) :
         LET r == decompress_file(inp[1], inp[2])
         IN /\ decompress_result' = r.result
            /\ current_code' = r.current_code
            /\ read_compressed' = inp[1]
            /\ read_encoding' = inp[2]
            /\ decompressed_file' = IF r.written THEN File(r.decoded_data)
                                    ELSE decompressed_file
    /\ UNCHANGED <<pc, data, encoding_table, prev_run, runs, compress_result,
                   compressed_file, encoding_file>>
    /\ UNCHANGED buildVars

\* ------------------------------------------------------------ the program
Texts == UNION {[1..n -> TextAlphabet] : n \in 0..MaxLen}

Init ==
    /\ pc = "idle"
    /\ data \in Texts
    /\ frequency_table = <<>>
    /\ nodes = <<>>
    /\ heap = <<>>
    /\ alloc_dir = "up"
    /\ merges = 0
    /\ tree = None
    /\ encoding_table = <<>>
    /\ prev_run = [encoding_table |-> <<>>, alloc_dir |-> "up"]
    /\ runs = 0
    /\ compressed_file = NoFile
    /\ encoding_file = NoFile
    /\ decompressed_file = NoFile
    /\ compress_result = NotCalled
    /\ decompress_result = NotCalled
    /\ read_compressed = <<>>
    /\ read_encoding = <<>>
    /\ current_code = <<>>

Next == CompressFile \/ DecompressMissing \/ DecompressFile

Spec == Init /\ [][Next]_vars

\* ------------------------------------------------------------ the builders, step by step
\* build_frequency_table, build_huffman_tree and build_encoding_table applied to
\* a drawn text, the loops of build_huffman_tree one iteration per step.
CountSymbols ==
    /\ pc = "start"
    /\ frequency_table' = build_frequency_table(data)
    /\ \E dir \in {"up", "down"} : alloc_dir' = dir
    /\ nodes' = <<>>
    /\ heap' = <<>>
    /\ merges' = 0
    /\ tree' = None
    /\ encoding_table' = <<>>
    /\ prev_run' = [encoding_table |-> encoding_table, alloc_dir |-> alloc_dir]
    /\ runs' = runs + 1
    /\ pc' = "build"
    /\ UNCHANGED <<data, compress_result>>
    /\ UNCHANGED fileVars
    /\ UNCHANGED decompressVars

\* the for loop, one item per step
PushLeaf ==
    /\ pc = "build"
    /\ Len(nodes) < Len(frequency_table)
    /\ LET st == PushOne([nodes |-> nodes, heap |-> heap],
                         frequency_table[Len(nodes) + 1], alloc_dir)
       IN nodes' = st.nodes /\ heap' = st.heap
    /\ UNCHANGED <<pc, data, frequency_table, alloc_dir, merges, tree, encoding_table,
                   prev_run, runs, compress_result>>
    /\ UNCHANGED fileVars
    /\ UNCHANGED decompressVars

\* the while loop, one iteration per step
MergeStep ==
    /\ pc = "build"
    /\ Len(nodes) >= Len(frequency_table)
    /\ Len(heap) > 1
    /\ LET st == MergeOnce([nodes |-> nodes, heap |-> heap], alloc_dir)
       IN nodes' = st.nodes /\ heap' = st.heap
    /\ merges' = merges + 1
    /\ UNCHANGED <<pc, data, frequency_table, alloc_dir, tree, encoding_table,
                   prev_run, runs, compress_result>>
    /\ UNCHANGED fileVars
    /\ UNCHANGED decompressVars

\* `if not heap: return None`, and `return heap[0]` when the while loop is over
ReturnTree ==
    /\ pc = "build"
    /\ Len(nodes) >= Len(frequency_table)
    /\ Len(heap) <= 1
    /\ tree' = IF heap = <<>> THEN None ELSE heap[1]
    /\ pc' = "return"
    /\ UNCHANGED <<data, frequency_table, nodes, heap, alloc_dir, merges, encoding_table,
                   prev_run, runs, compress_result>>
    /\ UNCHANGED fileVars
    /\ UNCHANGED decompressVars

\* build_encoding_table on the tree returned; compress_file calls it for a tree only
BuildEncodingTable ==
    /\ pc = "return"
    /\ tree # None
    /\ encoding_table' = build_encoding_table(nodes, tree)
    /\ pc' = "table"
    /\ UNCHANGED <<data, prev_run, runs, compress_result>>
    /\ UNCHANGED buildVars
    /\ UNCHANGED fileVars
    /\ UNCHANGED decompressVars

\* the same text is handed to the builders again
Again ==
    /\ pc = "table"
    /\ runs < MaxRuns
    /\ pc' = "start"
    /\ UNCHANGED <<data, encoding_table, prev_run, runs, compress_result>>
    /\ UNCHANGED buildVars
    /\ UNCHANGED fileVars
    /\ UNCHANGED decompressVars

BuildTexts == UNION {[1..n -> BuildAlphabet] : n \in 0..MaxBuildLen}

InitBuild ==
    /\ pc = "start"
    /\ data \in BuildTexts
    /\ frequency_table = <<>>
    /\ nodes = <<>>
    /\ heap = <<>>
    /\ alloc_dir = "up"
    /\ merges = 0
    /\ tree = None
    /\ encoding_table = <<>>
    /\ prev_run = [encoding_table |-> <<>>, alloc_dir |-> "up"]
    /\ runs = 0
    /\ compressed_file = NoFile
    /\ encoding_file = NoFile
    /\ decompressed_file = NoFile
    /\ compress_result = NotCalled
    /\ decompress_result = NotCalled
    /\ read_compressed = <<>>
    /\ read_encoding = <<>>
    /\ current_code = <<>>

NextBuild ==
    CountSymbols \/ PushLeaf \/ MergeStep \/ ReturnTree \/ BuildEncodingTable \/ Again

SpecBuild == InitBuild /\ [][NextBuild]_vars

\* ------------------------------------------------------------ properties
Range(f) == {f[i] : i \in DOMAIN f}
Count(c, text) == Cardinality({i \in DOMAIN text : text[i] = c})
IsPrefix(a, b) == Len(a) <= Len(b) /\ SubSeq(b, 1, Len(a)) = a
Handles == 1..Len(nodes)
Leaves == {n \in Handles : nodes[n].character # NoChar}
Internal == Handles \ Leaves
Parents(n) == {m \in Handles : nodes[m].left = n} \cup {m \in Handles : nodes[m].right = n}
DecompressRan == decompress_result \in {Failure, SuccessMessage}

\* C1: decompress_file run on the two files compress_file wrote gives back the
\* input text.
RoundTrip ==
    (/\ DecompressRan
     /\ compress_result = SuccessMessage
     /\ read_compressed = compressed_file.content
     /\ read_encoding = encoding_file.content)
    => /\ decompress_result = SuccessMessage
       /\ decompressed_file = File(data)

\* C2: compress_file on an empty input does not succeed and leaves no
\* .compressed and no .encoding file.
EmptyInputWritesNothing ==
    data = <<>> =>
        /\ compress_result # SuccessMessage
        /\ ~compressed_file.exists
        /\ ~encoding_file.exists

EmptyInputCompressed == data = <<>> /\ compress_result = Failure

\* C3: every code of a table built from a non-empty frequency table has at
\* least one bit.
CodesNonEmpty ==
    pc = "table" => \A i \in DOMAIN encoding_table : encoding_table[i].val # <<>>

\* C4: in a built table no symbol's code is a prefix of (or equal to) another
\* symbol's code.
PrefixFree ==
    pc = "table" =>
        \A i, j \in DOMAIN encoding_table :
            i # j => ~IsPrefix(encoding_table[i].val, encoding_table[j].val)

PrefixFreeWitness ==
    /\ pc = "table"
    /\ Len(encoding_table) >= 3
    /\ \E i, j \in DOMAIN encoding_table :
         Len(encoding_table[i].val) < Len(encoding_table[j].val)

\* C5: when decompress_file's loop ends with bits left in the accumulator, the
\* call does not succeed.
TruncationDetected ==
    (DecompressRan /\ current_code # <<>>) => decompress_result # SuccessMessage

DuplicateCodeIn(text) ==
    LET lines == SplitLines(text, 1, <<>>, <<>>)
    IN \E i, j \in DOMAIN lines :
         /\ Len(Parts(lines[i])) = 2
         /\ Len(Parts(lines[j])) = 2
         /\ Parts(lines[i])[1] # Parts(lines[j])[1]
         /\ Parts(lines[i])[2] = Parts(lines[j])[2]

\* C6: when the table text decompress_file read gives two different symbols the
\* same code, the call does not succeed.
DuplicateCodeDetected ==
    (DecompressRan /\ DuplicateCodeIn(read_encoding)) => decompress_result # SuccessMessage

MalformedLineIn(text) ==
    LET lines == SplitLines(text, 1, <<>>, <<>>)
    IN \E i \in DOMAIN lines : Len(Parts(lines[i])) # 2

\* C7: when a line of the table text decompress_file read is not one symbol
\* and one code around a single ':', the call does not succeed.
MalformedDetected ==
    (DecompressRan /\ MalformedLineIn(read_encoding)) => decompress_result # SuccessMessage

\* C8: the builders applied a second time to the same text give the same code
\* table, whatever identities the nodes get.
SameTableAgain ==
    (pc = "table" /\ runs >= 2) => encoding_table = prev_run.encoding_table

SameTableAgainWitness ==
    /\ pc = "table"
    /\ runs = 2
    /\ alloc_dir # prev_run.alloc_dir
    /\ Len(frequency_table) >= 3
    /\ \E i, j \in DOMAIN frequency_table :
         i # j /\ frequency_table[i].val = frequency_table[j].val

\* C9: the tree returned for a non-empty text has one leaf per distinct symbol
\* weighing that symbol's count, internal nodes with two children weighing the
\* sum of their children, and a root weighing the length of the text.
TreeWellFormed ==
    (pc \in {"return", "table"} /\ data # <<>>) =>
        /\ tree \in Handles
        /\ \A c \in Range(data) : Cardinality({n \in Leaves : nodes[n].character = c}) = 1
        /\ \A n \in Leaves :
             /\ nodes[n].character \in Range(data)
             /\ nodes[n].frequency = Count(nodes[n].character, data)
             /\ nodes[n].left = None /\ nodes[n].right = None
        /\ \A n \in Internal :
             /\ nodes[n].left \in 1..(n - 1)
             /\ nodes[n].right \in 1..(n - 1)
             /\ nodes[n].left # nodes[n].right
             /\ nodes[n].frequency =
                    nodes[nodes[n].left].frequency + nodes[nodes[n].right].frequency
        /\ Parents(tree) = {}
        /\ \A n \in Handles \ {tree} : Cardinality(Parents(n)) = 1
        /\ nodes[tree].frequency = Len(data)

TreeWellFormedWitness ==
    /\ pc = "return"
    /\ Len(frequency_table) >= 3
    /\ \E i \in DOMAIN frequency_table : frequency_table[i].val >= 2

\* one iteration of the while loop, seen from outside
MergeIsLowestTwo ==
    merges' = merges + 1 =>
        LET new == Len(nodes')
            l == nodes'[new].left
            r == nodes'[new].right
        IN /\ nodes' = Append(nodes, nodes'[new])
           /\ l \in Range(heap) /\ r \in Range(heap) /\ l # r
           /\ \A h \in Range(heap) : nodes[l].frequency <= nodes[h].frequency
           /\ \A h \in Range(heap) \ {l} : nodes[r].frequency <= nodes[h].frequency
           /\ nodes'[new].frequency = nodes[l].frequency + nodes[r].frequency
           /\ Len(heap') = Len(heap) - 1
           /\ Range(heap') = (Range(heap) \ {l, r}) \cup {new}

\* how far the loop is, in every state of a call
MergeCount ==
    /\ (pc = "build" /\ Len(nodes) < Len(frequency_table)) =>
           /\ merges = 0
           /\ Len(heap) = Len(nodes)
    /\ (pc = "build" /\ Len(nodes) >= Len(frequency_table)) =>
           /\ Len(heap) = Len(frequency_table) - merges
           /\ Len(heap) >= 1 \/ frequency_table = <<>>
    /\ (pc = "return" /\ frequency_table # <<>>) =>
           /\ merges = Len(frequency_table) - 1
           /\ heap = <<tree>>
    /\ (pc = "return" /\ frequency_table = <<>>) =>
           /\ merges = 0
           /\ tree = None

\* C10: every iteration of the while loop takes the two lightest nodes out of
\* the heap (the first one as left child), puts one node of their summed weight
\* in, and so shortens the heap by one; from N leaves the function returns
\* after N-1 iterations with the one node left, and from no leaf it returns
\* None without an iteration (the heap's length, N minus the iterations done,
\* is the loop's variant).
MergeLoop ==
    /\ [][MergeIsLowestTwo]_vars
    /\ []MergeCount

MergeLoopWitness ==
    /\ pc = "return"
    /\ merges >= 3
    /\ \E n \in Internal : nodes[nodes[n].left].frequency < nodes[nodes[n].right].frequency

====
